---------------------------- MODULE Spec2Model ----------------------------
(***************************************************************************)
(* Session / profile bootstrap of the AuthProvider context and the         *)
(* profile-completion gate of the Navigation component.                    *)
(*                                                                         *)
(* Time is discrete, one tick = 1000 ms.  A timer is a countdown: Off, or  *)
(* the number of ticks left; a timer at 0 is due and must fire (or be      *)
(* cleared) before the next tick.  A backend call in flight may be         *)
(* answered in any tick, or never.                                         *)
(***************************************************************************)
EXTENDS Integers, Sequences, FiniteSets, TLC

\* ------------------------------------------------------------- bounds
\* number of external stimuli after mount: session-change notifications of the
\* identity service, manual refreshProfile() calls, window focus events, teardown
MaxOps == 2

\* ------------------------------------------------- program constants
\* all in ticks of 1000 ms
FailsafeTicks == 3
SessionTimeoutTicks == 2
ProfileTimeoutTicks == 2
BackgroundDelayTicks == 0
NavTimeoutTicks == 3
DebounceTicks == 2
FocusTicks == 5

Off == 0 - 1

\* ------------------------------------------------------------- values
NULL == "null"
Users == {"A", "B"}
UserIds == Users \cup {NULL}

\* Session | null : a session is identified by its subject
NoSession == [user |-> NULL]
SessionOf(u) == [user |-> u]
Sessions == {SessionOf(u) : u \in UserIds}

\* initialSession?.user ?? null
UserOf(s) == s.user

\* values of a text column / of the completed_profile column
NameValues == {NULL, "", "Jane", "Doe", "User", "Name"}
FlagValues == {NULL, "true", "false"}

\* Profile | null
NoProfile ==
    [id |-> NULL, first_name |-> NULL, last_name |-> NULL, completed_profile |-> NULL]
MkProfile(i, f, l, c) ==
    [id |-> i, first_name |-> f, last_name |-> l, completed_profile |-> c]

\* a row of the profiles table, or its absence
NoRow == [exists |-> FALSE, first_name |-> NULL, last_name |-> NULL, completed_profile |-> NULL]
MkRow(f, l, c) == [exists |-> TRUE, first_name |-> f, last_name |-> l, completed_profile |-> c]

\* JavaScript truthiness of a string | boolean | null value
Truthy(v) == v \notin {NULL, "", "false"}

\* !!x rendered as a boolean column value
BoolStr(b) == IF b THEN "true" ELSE "false"

\* the rows user A may have when the run starts (user B starts without a row)
InitialRows ==
    { NoRow,
      MkRow("Jane", "Doe", "true"),
      MkRow("Jane", "Doe", NULL),
      MkRow("Jane", NULL, "false") }

\* ---------------------------------------------------------- variables
VARIABLES
    \* environment: platform, device-local storage, identity service, profile store
    platform, page_refreshing, last_user_id, profile_completed, storedToken,
    authSession, columnExists, rows,
    \* AuthProvider React state
    session, user, profile, loading, profileLoading, initError,
    \* closure of the initial-session effect
    isMounted, failsafeTimeout, initPc, initialSession, isRefreshing,
    sessionTimer, getSessionCall, bgTimer,
    \* closure of the auth-listener effect
    previousUserId, refreshInProgress, sinceFocus, nEvents, nFocus,
    \* fetchProfile invocations
    fetches, nRefresh,
    \* history: the fetch that completed last and what it produced (NoSlot once
    \* anything else has written profile), and whether completions overlapped
    lastDone, lastResult, overlap,
    \* Navigation component state
    hasCompletedProfileBefore, loadingTimeout, navTimer, isProfileComplete,
    \* Navigation's updateExistingProfile effect: whether its dependencies changed
    \* since it ran, the updates awaiting an answer, the refresh timers set, and
    \* history (updates issued, how far the last successful one has got)
    upgrade,
    \* CompleteProfileScreen: position of handleCompleteProfile, the screen's
    \* loading flag, the names typed, and history (a write succeeded, submissions)
    submit

envVars == <<platform, page_refreshing, last_user_id, profile_completed, storedToken,
             authSession, columnExists, rows>>
stateVars == <<session, user, profile, loading, profileLoading, initError>>
initVars == <<isMounted, failsafeTimeout, initPc, initialSession, isRefreshing,
              sessionTimer, getSessionCall, bgTimer>>
listenerVars == <<previousUserId, refreshInProgress, sinceFocus, nEvents, nFocus>>
histVars == <<lastDone, lastResult, overlap>>
fetchVars == <<fetches, nRefresh, histVars>>
navVars == <<hasCompletedProfileBefore, loadingTimeout, navTimer, isProfileComplete,
             upgrade, submit>>
vars == <<envVars, stateVars, initVars, listenerVars, fetchVars, navVars>>

\* ---------------------------------------------------- fetch slots
\* one slot per possible caller of fetchProfile
InitSlot == <<"init", 0>>
ListenerSlot == <<"listener", 0>>
RefreshSlot(i) == <<"refresh", i>>
NoSlot == <<"none", 0>>
RefreshSlots == {RefreshSlot(i) : i \in 1..MaxOps}
FocusSlot == <<"focus", 0>>
Slots == {InitSlot, ListenerSlot, FocusSlot} \cup RefreshSlots

IdleFetch == [st |-> "idle", uid |-> NULL, timer |-> Off]
Active(f) == fetches[f].st \in {"query", "fallback"}
AnyActive == \E f \in Slots : Active(f)

\* the external stimuli still allowed by the bound
OpsLeft == nEvents + nRefresh + nFocus + (IF isMounted THEN 0 ELSE 1) < MaxOps

\* the slot the next refreshProfile() call runs in
FreeRefreshSlot ==
    RefreshSlot(CHOOSE i \in 1..MaxOps :
        /\ ~Active(RefreshSlot(i))
        /\ \A j \in 1..(i - 1) : Active(RefreshSlot(j)))

\* ------------------------------------------------ derived values
\* const combinedLoading = loading || (session !== null && profileLoading)
CombinedLoading(ld, s, pl) == ld \/ (s # NoSession /\ pl)
ExposedLoading == CombinedLoading(loading, session, profileLoading)

\* Navigation: hasCompletedProfile, hasFirstLastName, isProfileComplete
HasCompletedProfile(p) == Truthy(p.completed_profile)
HasFirstLastName(p) == Truthy(p.first_name) /\ Truthy(p.last_name)
\* fault variant: the name rule left out
IsProfileCompleteNoNames(p, before, timeout) ==
    HasCompletedProfile(p) \/ before \/ timeout

IsProfileCompleteOf(p, before, timeout) ==
    HasCompletedProfile(p) \/ HasFirstLastName(p) \/ before \/ timeout
IsProfileComplete ==
    IsProfileCompleteOf(profile, hasCompletedProfileBefore, loadingTimeout)

\* the stale values the two effects' closures hold: both effects depend on
\* [fetchProfile] only, so they keep the first render's loading, user, profile
ClosureLoading == TRUE
ClosureUser == NULL
ClosureProfile == NoProfile

\* ---------------------------------------------------------------- Init
\* What earlier runs left on the device and in the backend, as scenario
\* families: <<platform, page_refreshing, last_user_id, storedToken,
\* marker of A, authSession, columnExists, row of A>>.  User B is new: no
\* row, no marker.
BaseScenarios ==
    {<<pf, FALSE, NULL, NULL, m, a, TRUE, MkRow("Jane", "Doe", NULL)>> :
        pf \in {"web", "native"}, m \in BOOLEAN, a \in {NULL, "A"}}
SchemaScenarios ==
    {<<"native", FALSE, NULL, NULL, FALSE, "A", FALSE, r>> :
        r \in {MkRow("Jane", "Doe", NULL), MkRow("Jane", NULL, NULL)}}
RowScenarios ==
    {<<"native", FALSE, NULL, NULL, FALSE, "A", TRUE, r>> :
        r \in InitialRows \ {MkRow("Jane", "Doe", NULL)}}
ReloadScenarios ==
    {<<"web", TRUE, "A", t, FALSE, NULL, TRUE, MkRow("Jane", "Doe", "true")>> :
        t \in {NULL, "A"}}
Scenarios == BaseScenarios \cup SchemaScenarios \cup RowScenarios \cup ReloadScenarios

\* the device and the backend as scenario sc describes them
EnvIs(sc) ==
    /\ platform = sc[1]
    /\ page_refreshing = sc[2]
    /\ last_user_id = sc[3]
    /\ storedToken = sc[4]
    /\ profile_completed = [u \in Users |-> u = "A" /\ sc[5]]
    /\ authSession = sc[6]
    /\ columnExists = sc[7]
    /\ rows = [u \in Users |-> IF u = "A" THEN sc[8] ELSE NoRow]

\* the provider and Navigation after construction (useState defaults)
Constructed ==
    /\ session = NoSession
    /\ user = NULL
    /\ profile = NoProfile
    /\ loading = TRUE
    /\ profileLoading = FALSE
    /\ initError = FALSE
    /\ isMounted = TRUE
    /\ failsafeTimeout = Off
    /\ initPc = "idle"
    /\ initialSession = NoSession
    /\ isRefreshing = FALSE
    /\ sessionTimer = Off
    /\ getSessionCall = "none"
    /\ bgTimer = Off
    /\ previousUserId = NULL
    /\ refreshInProgress = FALSE
    /\ sinceFocus = 0
    /\ nEvents = 0
    /\ nFocus = 0
    /\ fetches = [f \in Slots |-> IdleFetch]
    /\ nRefresh = 0
    /\ lastDone = NoSlot
    /\ lastResult = NoProfile
    /\ overlap = "none"
    /\ hasCompletedProfileBefore = FALSE
    /\ loadingTimeout = FALSE
    /\ navTimer = Off
    /\ isProfileComplete = FALSE
    /\ upgrade = [deps |-> TRUE, pending |-> <<>>, timers |-> <<>>, n |-> 0, phase |-> "none"]
    /\ submit = [pc |-> "idle", loading |-> FALSE, firstName |-> "", lastName |-> "",
                 ok |-> FALSE, n |-> 0]

\* The state after construction (useState defaults), before the effects run.
Init ==
    /\ \E sc \in Scenarios : EnvIs(sc)
    /\ Constructed

\* ------------------------------------------------- Navigation timer
\* useEffect(..., [loading, session]): when the exposed loading flag or the
\* session changes, the pending timer is cleared and, if loading && session,
\* a new one is set.  Conjoined to every action that can change either.
NavTimerEffect ==
    navTimer' =
        IF ~isMounted' THEN Off
        ELSE IF <<CombinedLoading(loading', session', profileLoading'), session'>>
                    # <<ExposedLoading, session>>
             THEN IF CombinedLoading(loading', session', profileLoading') /\ session' # NoSession
                  THEN NavTimeoutTicks ELSE Off
             ELSE navTimer

\* Navigation re-renders with the new context value: const isProfileComplete = ...
RenderCompletion ==
    isProfileComplete' =
        IF isMounted'
        THEN IsProfileCompleteOf(profile', hasCompletedProfileBefore', loadingTimeout')
        ELSE isProfileComplete

\* the render compares the dependencies of the updateExistingProfile effect,
\* [session, profile, hasFirstLastName, hasCompletedProfile, refreshProfile]:
\* a completed fetch stores a new profile object, refreshProfile changes with user
UpgradeDepsChanged ==
    \/ session' # session
    \/ profile' # profile
    \/ user' # user
    \/ \E f \in Slots : Active(f) /\ ~Active(f)'

\* history: the refresh that followed a successful update has completed
UpgradeRefreshCompletes ==
    upgrade.phase = "refreshing" /\ \E f \in RefreshSlots : Active(f) /\ ~Active(f)'

RenderUpgradeDeps ==
    upgrade' =
        IF isMounted'
        THEN [upgrade EXCEPT !.deps = @ \/ UpgradeDepsChanged,
                             !.phase = IF UpgradeRefreshCompletes THEN "refreshed" ELSE @]
        ELSE upgrade

\* a render caused by the provider or by Navigation's own state: the screens'
\* local state is not touched
NavRender ==
    /\ RenderCompletion
    /\ RenderUpgradeDeps
    /\ UNCHANGED submit

\* ------------------------------------------------------ fetchProfile
\* fault variant: a profile object is stored although no row was found
QueryResultEmptyRow(u) ==
    MkProfile(u, rows[u].first_name, rows[u].last_name, rows[u].completed_profile)

\* the profile a successful first query stores (setProfile(data) / no row)
QueryResult(u) ==
    IF rows[u].exists
    THEN MkProfile(u, rows[u].first_name, rows[u].last_name, rows[u].completed_profile)
    ELSE NoProfile

\* fault variant: the fallback row stored as it is, without the synthesised flag
FallbackResultUnflagged(u) == QueryResult(u)

\* the profile the fallback query stores: completed_profile synthesised from the names
FallbackResult(u) ==
    IF rows[u].exists
    THEN MkProfile(u, rows[u].first_name, rows[u].last_name,
                   BoolStr(Truthy(rows[u].first_name) /\ Truthy(rows[u].last_name)))
    ELSE NoProfile

\* fetchProfile(u) up to its first await: setProfileLoading(true), query issued
StartedFetches(f, u) ==
    [g \in Slots |->
        IF g = f
        THEN [st |-> "query", uid |-> u, timer |-> ProfileTimeoutTicks]
        ELSE fetches[g]]

\* history kept when a fetch starts
OverlapAtStart == IF AnyActive THEN overlap ELSE "none"

\* history kept when fetch f completes
OverlapAtFinish(f) ==
    IF overlap \in {"first", "both"} /\ ~(\E h \in Slots \ {f} : Active(h)) THEN "both"
    ELSE IF \E h \in Slots \ {f} : Active(h) THEN "first"
    ELSE overlap

\* fault variant: a result is stored only while no profile is held
FetchWritesIfEmpty(f) == profile = NoProfile

\* fault variant: a result does not replace a profile that is already complete
FetchWritesUnlessComplete(f) ==
    ~(HasCompletedProfile(profile) \/ HasFirstLastName(profile))

\* whether a completing fetch writes its result: fetchProfile checks nothing
FetchWrites(f) == TRUE

\* fault variant: the finally block does not reset the flag
ProfileLoadingKept(f) == profileLoading

\* profileLoading after the finally block of fetchProfile
ProfileLoadingAfterFetch(f) == FALSE

\* fault variant: a read that stored nothing reaches the caller's catch block
InitErrorOnFailure(f, p) == initError \/ p = NoProfile

\* initError after fetchProfile: every branch and catch block only logs
InitErrorAfterFetch(f, p) == initError

\* fault variant: the flag is released only after a fetch that stored a row
RefreshFlagKeptOnFailure(f, p) ==
    IF f \in {ListenerSlot, FocusSlot} /\ p # NoProfile THEN FALSE ELSE refreshInProgress

\* refreshInProgress after the handler that awaited fetch f went on:
\* refreshInProgress = false follows the try/catch/finally around the await
RefreshFlagAfterFetch(f, p) ==
    IF f \in {ListenerSlot, FocusSlot} THEN FALSE ELSE refreshInProgress

\* fetchProfile from the resolution of its query to its end, and the rest of
\* the caller that awaited it
Finish(f, p) ==
    /\ profile' = IF FetchWrites(f) THEN p ELSE profile
    /\ lastDone' = f
    /\ lastResult' = p
    /\ overlap' = OverlapAtFinish(f)
    /\ profileLoading' = ProfileLoadingAfterFetch(f)
    /\ fetches' = [fetches EXCEPT ![f] = IdleFetch]
    /\ IF f = InitSlot /\ initPc = "fetch"
       THEN /\ initPc' = "done"
            /\ IF isMounted
               THEN loading' = FALSE /\ failsafeTimeout' = Off
               ELSE UNCHANGED <<loading, failsafeTimeout>>
       ELSE UNCHANGED <<initPc, loading, failsafeTimeout>>
    /\ refreshInProgress' = RefreshFlagAfterFetch(f, p)
    /\ sinceFocus' = IF f = FocusSlot THEN 0 ELSE sinceFocus
    /\ initError' = InitErrorAfterFetch(f, p)
    /\ UNCHANGED <<envVars, session, user, isMounted, initialSession, isRefreshing,
                   sessionTimer, getSessionCall, bgTimer, previousUserId, nEvents, nFocus,
                   nRefresh, hasCompletedProfileBefore, loadingTimeout>>
    /\ NavTimerEffect
    /\ NavRender

\* the first query answers: a row, no row (406), or a missing-column error
QueryResponds(f) ==
    /\ fetches[f].st = "query"
    /\ IF ~columnExists
       THEN /\ fetches' = [fetches EXCEPT ![f] = [@ EXCEPT !.st = "fallback", !.timer = Off]]
            /\ UNCHANGED <<envVars, stateVars, initVars, listenerVars, nRefresh, histVars, navVars>>
       ELSE Finish(f, QueryResult(fetches[f].uid))

\* the first query fails with any other error
QueryFails(f) ==
    /\ fetches[f].st = "query"
    /\ Finish(f, NoProfile)

\* the 2000 ms timer wins the race
QueryTimeout(f) ==
    /\ fetches[f].st = "query"
    /\ fetches[f].timer = 0
    /\ Finish(f, NoProfile)

\* the fallback query (no timeout) answers
FallbackResponds(f) ==
    /\ fetches[f].st = "fallback"
    /\ Finish(f, FallbackResult(fetches[f].uid))

\* the fallback query fails or throws
FallbackFails(f) ==
    /\ fetches[f].st = "fallback"
    /\ Finish(f, NoProfile)

\* refreshProfile(): a consumer asks for a manual refresh
\* (with no user it only logs)
RefreshProfile ==
    /\ isMounted /\ initPc # "idle"
    /\ OpsLeft
    /\ user # NULL
    /\ nRefresh' = nRefresh + 1
    /\ fetches' = StartedFetches(FreeRefreshSlot, user)
    /\ overlap' = OverlapAtStart
    /\ profileLoading' = TRUE
    /\ UNCHANGED <<envVars, session, user, profile, loading, initError, initVars, listenerVars,
                   lastDone, lastResult, hasCompletedProfileBefore, loadingTimeout>>
    /\ NavTimerEffect
    /\ NavRender

\* ---------------------------------------------- initial-session effect
\* The effect body up to the first await of initializeAuth: the failsafe is
\* armed, the refresh flag read and cleared, getSession() raced with a timer.
\* The auth-listener effect runs in the same commit (lastFocusTime = now).
MountEffects ==
    /\ initPc = "idle"
    /\ failsafeTimeout' = FailsafeTicks
    /\ loading' = TRUE
    /\ isRefreshing' = (platform = "web" /\ page_refreshing)
    /\ page_refreshing' = FALSE
    /\ sessionTimer' = SessionTimeoutTicks
    /\ getSessionCall' = "pending"
    /\ initPc' = "getSession"
    /\ sinceFocus' = 0
    /\ UNCHANGED <<platform, last_user_id, profile_completed, storedToken, authSession,
                   columnExists, rows, session, user, profile, profileLoading, initError,
                   isMounted, initialSession, bgTimer, previousUserId, refreshInProgress,
                   nEvents, nFocus, fetchVars, hasCompletedProfileBefore, loadingTimeout>>
    /\ NavTimerEffect
    /\ NavRender

\* fault variant: the guard inverted
InitMayWriteInverted == ~isMounted

\* whether initializeAuth may write state once the session is known
InitMayWrite == isMounted

\* fault variant: the timeout branch picks up what the service holds
TimeoutSessionFromService == SessionOf(authSession)

\* the session the timeout branch of the getSession race continues with
TimeoutSession == NoSession

\* fault variant: the entry is written on login but not removed on logout
LastUserIdNeverCleared(u) ==
    IF platform = "web" /\ u # NULL THEN u ELSE last_user_id

\* localStorage's last_user_id after the identity became u: set on web when a
\* user is present, removed on web when none is
LastUserIdAfter(u) ==
    IF platform = "web" THEN u ELSE last_user_id

\* initializeAuth from "if (!isMounted)" after session acquisition to its next
\* await (the marker read or the profile query) or to its end
AfterSession(s) ==
    /\ initialSession' = s
    /\ IF ~InitMayWrite
       THEN /\ initPc' = "done"
            /\ UNCHANGED <<session, user, last_user_id, loading, failsafeTimeout, fetches,
                           profileLoading, overlap>>
       ELSE /\ session' = s
            /\ user' = UserOf(s)
            /\ last_user_id' = LastUserIdAfter(UserOf(s))
            /\ IF UserOf(s) # NULL /\ platform = "web"
               THEN /\ initPc' = "readMarker"
                    /\ UNCHANGED <<loading, failsafeTimeout, fetches, profileLoading, overlap>>
               ELSE IF UserOf(s) # NULL
               THEN /\ initPc' = "fetch"
                    /\ fetches' = StartedFetches(InitSlot, UserOf(s))
                    /\ overlap' = OverlapAtStart
                    /\ profileLoading' = TRUE
                    /\ UNCHANGED <<loading, failsafeTimeout>>
               ELSE /\ initPc' = "done"
                    /\ loading' = FALSE
                    /\ failsafeTimeout' = Off
                    /\ UNCHANGED <<fetches, profileLoading, overlap>>

\* what AfterSession leaves alone
AfterSessionFrame ==
    UNCHANGED <<platform, page_refreshing, profile_completed, storedToken, columnExists, rows,
                profile, initError, isMounted, isRefreshing, bgTimer, listenerVars, nRefresh,
                lastDone, lastResult, hasCompletedProfileBefore, loadingTimeout>>

\* fault variant: recovery is tried although the page was not reloading
RecoveryWithoutFlag ==
    authSession = NULL /\ platform = "web" /\ last_user_id # NULL

\* if (!initialSession && isRefreshing && Platform.OS === 'web') and a
\* last_user_id is stored: the session is to be recovered
RecoveryAttempted ==
    authSession = NULL /\ isRefreshing /\ platform = "web" /\ last_user_id # NULL

\* getSession() answers before its timer
GetSessionAnswer ==
    /\ initPc = "getSession"
    /\ getSessionCall = "pending"
    /\ getSessionCall' = "done"
    /\ sessionTimer' = Off
    /\ IF RecoveryAttempted
       THEN /\ initPc' = "refreshSession"
            /\ UNCHANGED <<initialSession, session, user, last_user_id, loading, failsafeTimeout,
                           fetches, profileLoading, overlap>>
       ELSE AfterSession(SessionOf(authSession))
    /\ UNCHANGED authSession
    /\ AfterSessionFrame
    /\ NavTimerEffect
    /\ NavRender

\* the 2000 ms timer wins the race: continue without a session
GetSessionTimeout ==
    /\ initPc = "getSession"
    /\ sessionTimer = 0
    /\ getSessionCall' = "lost"
    /\ sessionTimer' = Off
    /\ AfterSession(TimeoutSession)
    /\ UNCHANGED authSession
    /\ AfterSessionFrame
    /\ NavTimerEffect
    /\ NavRender

\* getSession() answers after it lost the race: nobody reads the answer
LateGetSessionAnswer ==
    /\ getSessionCall = "lost"
    /\ getSessionCall' = "discarded"
    /\ UNCHANGED <<envVars, stateVars, isMounted, failsafeTimeout, initPc, initialSession,
                   isRefreshing, sessionTimer, bgTimer, listenerVars, fetchVars, navVars>>

\* session recovery after a page reload: refreshSession() answers
RefreshSessionAnswer(ok) ==
    /\ initPc = "refreshSession"
    /\ IF ok /\ storedToken # NULL
       THEN /\ authSession' = storedToken
            /\ AfterSession(SessionOf(storedToken))
       ELSE IF ok
       THEN /\ UNCHANGED authSession
            /\ AfterSession(NoSession)
       ELSE /\ initPc' = "readToken"
            /\ UNCHANGED <<authSession, initialSession, session, user, last_user_id, loading,
                           failsafeTimeout, fetches, profileLoading, overlap>>
    /\ UNCHANGED <<sessionTimer, getSessionCall>>
    /\ AfterSessionFrame
    /\ NavTimerEffect
    /\ NavRender

\* AsyncStorage.getItem('supabase.auth.token') answers
ReadTokenAnswer ==
    /\ initPc = "readToken"
    /\ IF storedToken # NULL
       THEN /\ initPc' = "setSession"
            /\ UNCHANGED <<initialSession, session, user, last_user_id, loading,
                           failsafeTimeout, fetches, profileLoading, overlap>>
       ELSE AfterSession(NoSession)
    /\ UNCHANGED <<authSession, sessionTimer, getSessionCall>>
    /\ AfterSessionFrame
    /\ NavTimerEffect
    /\ NavRender

\* setSession(parsedToken) answers (or the token fails to parse)
SetSessionAnswer(ok) ==
    /\ initPc = "setSession"
    /\ IF ok /\ storedToken # NULL
       THEN /\ authSession' = storedToken
            /\ AfterSession(SessionOf(storedToken))
       ELSE /\ UNCHANGED authSession
            /\ AfterSession(NoSession)
    /\ UNCHANGED <<sessionTimer, getSessionCall>>
    /\ AfterSessionFrame
    /\ NavTimerEffect
    /\ NavRender

\* fault variant: the placeholder lacks the completed flag
PlaceholderUnflagged(u) == MkProfile(u, "User", "Name", "false")

\* the placeholder profile of the fast path
PlaceholderProfile(u) == MkProfile(u, "User", "Name", "true")

\* whether the marker read selects the fast path
FastPath(u, readOk) == readOk /\ profile_completed[u]

\* AsyncStorage.getItem(profile_completed_<id>) answers (readOk) or throws:
\* the fast path, or the normal profile fetch
ReadMarkerAnswer(readOk) ==
    /\ initPc = "readMarker"
    /\ IF FastPath(UserOf(initialSession), readOk)
       THEN /\ profile' = PlaceholderProfile(UserOf(initialSession))
            /\ lastDone' = NoSlot
            /\ lastResult' = NoProfile
            /\ loading' = FALSE
            /\ failsafeTimeout' = Off
            /\ bgTimer' = BackgroundDelayTicks
            /\ initPc' = "done"
            /\ UNCHANGED <<fetches, profileLoading, overlap>>
       ELSE /\ fetches' = StartedFetches(InitSlot, UserOf(initialSession))
            /\ overlap' = OverlapAtStart
            /\ profileLoading' = TRUE
            /\ initPc' = "fetch"
            /\ UNCHANGED <<profile, lastDone, lastResult, loading, failsafeTimeout, bgTimer>>
    /\ UNCHANGED <<envVars, session, user, initError, isMounted, initialSession, isRefreshing,
                   sessionTimer, getSessionCall, listenerVars, nRefresh,
                   hasCompletedProfileBefore, loadingTimeout>>
    /\ NavTimerEffect
    /\ NavRender

\* setTimeout(() => fetchProfile(currentUser), 100) of the fast path fires
BackgroundFetch ==
    /\ bgTimer = 0
    /\ bgTimer' = Off
    /\ fetches' = StartedFetches(InitSlot, UserOf(initialSession))
    /\ overlap' = OverlapAtStart
    /\ profileLoading' = TRUE
    /\ UNCHANGED <<envVars, session, user, profile, loading, initError, isMounted,
                   failsafeTimeout, initPc, initialSession, isRefreshing, sessionTimer,
                   getSessionCall, listenerVars, nRefresh, lastDone, lastResult,
                   hasCompletedProfileBefore, loadingTimeout>>
    /\ NavTimerEffect
    /\ NavRender

\* the failsafe timer fires: if (isMounted && loading) with the closure's loading
FailsafeFires ==
    /\ failsafeTimeout = 0
    /\ failsafeTimeout' = Off
    /\ IF isMounted /\ ClosureLoading
       THEN loading' = FALSE /\ initError' = TRUE
       ELSE UNCHANGED <<loading, initError>>
    /\ UNCHANGED <<envVars, session, user, profile, profileLoading, isMounted, initPc,
                   initialSession, isRefreshing, sessionTimer, getSessionCall, bgTimer,
                   listenerVars, fetchVars, hasCompletedProfileBefore, loadingTimeout>>
    /\ NavTimerEffect
    /\ NavRender

\* cleanup of both effects: isMounted = false, failsafe cleared, listener
\* unsubscribed; the Navigation below the provider goes with it
Unmount ==
    /\ isMounted /\ initPc # "idle"
    /\ OpsLeft
    /\ isMounted' = FALSE
    /\ failsafeTimeout' = Off
    /\ UNCHANGED <<envVars, stateVars, initPc, initialSession, isRefreshing, sessionTimer,
                   getSessionCall, bgTimer, listenerVars, fetchVars,
                   hasCompletedProfileBefore, loadingTimeout>>
    /\ NavTimerEffect
    /\ NavRender

\* ------------------------------------------------ auth-listener effect
\* profile && (profile.completed_profile || (profile.first_name && profile.last_name))
KnownComplete(p) == p # NoProfile /\ (HasCompletedProfile(p) \/ HasFirstLastName(p))

\* fault variant: no re-entrancy guard
NeverDrops == FALSE

\* whether the handler drops an event that arrives while refreshInProgress
DropsWhileBusy == refreshInProgress

\* the same-user de-duplication of the handler
SameUserNoOp(ev, newUserId) ==
    /\ newUserId # NULL /\ newUserId = previousUserId /\ ev # "SIGNED_OUT"
    /\ (sinceFocus < DebounceTicks \/ KnownComplete(ClosureProfile))

\* the onAuthStateChange callback for event ev with session newSession, up to
\* its await of fetchProfile (or to its end when there is nothing to fetch)
HandleAuthEvent(ev, newSession) ==
    IF DropsWhileBusy \/ SameUserNoOp(ev, UserOf(newSession))
    THEN UNCHANGED <<session, user, profile, profileLoading, previousUserId, refreshInProgress,
                     last_user_id, fetches, histVars>>
    ELSE /\ session' = newSession
         /\ previousUserId' = UserOf(newSession)
         /\ user' = UserOf(newSession)
         /\ last_user_id' = LastUserIdAfter(UserOf(newSession))
         /\ IF UserOf(newSession) # NULL
            THEN /\ profileLoading' = TRUE
                 /\ fetches' = StartedFetches(ListenerSlot, UserOf(newSession))
                 /\ overlap' = OverlapAtStart
                 /\ refreshInProgress' = TRUE
                 /\ UNCHANGED <<profile, lastDone, lastResult>>
            ELSE /\ profile' = NoProfile
                 /\ lastDone' = NoSlot
                 /\ lastResult' = NoProfile
                 /\ profileLoading' = FALSE
                 /\ refreshInProgress' = FALSE
                 /\ UNCHANGED <<fetches, overlap>>

\* what an auth event leaves alone
AuthEventFrame ==
    UNCHANGED <<platform, page_refreshing, profile_completed, storedToken, columnExists, rows,
                loading, initError, initVars, sinceFocus, nFocus, nRefresh,
                hasCompletedProfileBefore, loadingTimeout>>

Subscribed == isMounted /\ initPc # "idle"

\* the identity service reports a login of u
ServiceSignIn(u) ==
    /\ Subscribed /\ OpsLeft
    /\ nEvents' = nEvents + 1
    /\ authSession' = u
    /\ HandleAuthEvent("SIGNED_IN", SessionOf(u))
    /\ AuthEventFrame
    /\ NavTimerEffect
    /\ NavRender

\* the identity service reports a logout
ServiceSignOut ==
    /\ Subscribed /\ OpsLeft
    /\ authSession # NULL
    /\ nEvents' = nEvents + 1
    /\ authSession' = NULL
    /\ HandleAuthEvent("SIGNED_OUT", NoSession)
    /\ AuthEventFrame
    /\ NavTimerEffect
    /\ NavRender

\* the identity service reports a token refresh of the current session
ServiceTokenRefreshed ==
    /\ Subscribed /\ OpsLeft
    /\ authSession # NULL
    /\ nEvents' = nEvents + 1
    /\ UNCHANGED authSession
    /\ HandleAuthEvent("TOKEN_REFRESHED", SessionOf(authSession))
    /\ AuthEventFrame
    /\ NavTimerEffect
    /\ NavRender

\* handleFocusChange: the guard reads the closure's user
FocusRefreshGuard ==
    platform = "web" /\ isMounted /\ ClosureUser # NULL /\ ~refreshInProgress

\* a window focus event (web)
WindowFocus ==
    /\ platform = "web" /\ Subscribed
    /\ OpsLeft
    /\ nFocus' = nFocus + 1
    /\ IF FocusRefreshGuard
       THEN IF sinceFocus < FocusTicks
            THEN UNCHANGED <<sinceFocus, refreshInProgress, fetches, profileLoading, overlap>>
            ELSE IF profile_completed[ClosureUser] /\ KnownComplete(ClosureProfile)
            THEN /\ sinceFocus' = 0
                 /\ UNCHANGED <<refreshInProgress, fetches, profileLoading, overlap>>
            ELSE /\ refreshInProgress' = TRUE
                 /\ fetches' = StartedFetches(FocusSlot, ClosureUser)
                 /\ overlap' = OverlapAtStart
                 /\ profileLoading' = TRUE
                 /\ UNCHANGED sinceFocus
       ELSE /\ sinceFocus' = 0
            /\ UNCHANGED <<refreshInProgress, fetches, profileLoading, overlap>>
    /\ UNCHANGED <<envVars, session, user, profile, loading, initError, initVars,
                   previousUserId, nEvents, nRefresh, lastDone, lastResult,
                   hasCompletedProfileBefore, loadingTimeout>>
    /\ NavTimerEffect
    /\ NavRender

\* ----------------------------------------------------------- Navigation
\* the loading timer fires: setLoadingTimeout(true)
NavLoadingTimeoutFires ==
    /\ navTimer = 0
    /\ navTimer' = Off
    /\ loadingTimeout' = TRUE
    /\ UNCHANGED <<envVars, stateVars, initVars, listenerVars, fetchVars,
                   hasCompletedProfileBefore>>
    /\ NavRender

\* checkStoredProfileCompletion: the stored flag of the session's user is 'true'
CheckStoredProfileCompletion ==
    /\ isMounted
    /\ session # NoSession /\ ~IsProfileComplete
    /\ profile_completed[UserOf(session)]
    /\ hasCompletedProfileBefore' = TRUE
    /\ UNCHANGED <<envVars, stateVars, initVars, listenerVars, fetchVars, loadingTimeout,
                   navTimer>>
    /\ NavRender

\* storeProfileCompletion: the profile is seen complete, the flag is stored
StoreProfileCompletion ==
    /\ isMounted
    /\ session # NoSession
    /\ HasCompletedProfile(profile) \/ HasFirstLastName(profile)
    /\ ~hasCompletedProfileBefore
    /\ profile_completed' = [profile_completed EXCEPT ![UserOf(session)] = TRUE]
    /\ hasCompletedProfileBefore' = TRUE
    /\ UNCHANGED <<platform, page_refreshing, last_user_id, storedToken, authSession,
                   columnExists, rows, stateVars, initVars, listenerVars, fetchVars,
                   loadingTimeout, navTimer>>
    /\ NavRender

\* fault variant: a signed-in user whose profile is null is sent to sign-in
StackToShowNeedsProfile ==
    IF session # NoSession /\ user # NULL /\ profile # NoProfile
    THEN IF IsProfileComplete THEN "Main" ELSE "CompleteProfile"
    ELSE "Auth"

\* fault variant: the completion flag does not gate the main screens
StackToShowUngated ==
    IF session # NoSession /\ user # NULL THEN "Main" ELSE "Auth"

\* the stack Navigation renders
StackToShow ==
    IF session # NoSession /\ user # NULL
    THEN IF IsProfileComplete THEN "Main" ELSE "CompleteProfile"
    ELSE "Auth"

\* what Navigation returns: the spinner while loading (unless
\* showLoadingTooLong, set after 5000 ms of loading), else the stack
ScreenShown(showLoadingTooLong) ==
    IF ExposedLoading /\ ~showLoadingTooLong THEN "Loading" ELSE StackToShow

\* ----------------------------------------------------------------- time
Timers ==
    {failsafeTimeout, sessionTimer, bgTimer, navTimer} \cup {fetches[f].timer : f \in Slots}

Dec(t) == IF t > 0 THEN t - 1 ELSE t

\* 1000 ms pass: no timer is due, every running timer moves on
Tick ==
    /\ 0 \notin Timers
    /\ (\E t \in Timers : t > 0) \/ sinceFocus < FocusTicks
    /\ failsafeTimeout' = Dec(failsafeTimeout)
    /\ sessionTimer' = Dec(sessionTimer)
    /\ bgTimer' = Dec(bgTimer)
    /\ navTimer' = Dec(navTimer)
    /\ fetches' = [f \in Slots |-> [fetches[f] EXCEPT !.timer = Dec(@)]]
    /\ sinceFocus' = IF sinceFocus < FocusTicks THEN sinceFocus + 1 ELSE sinceFocus
    /\ UNCHANGED <<envVars, stateVars, isMounted, initPc, initialSession, isRefreshing,
                   getSessionCall, previousUserId, refreshInProgress, nEvents, nFocus, nRefresh,
                   histVars, hasCompletedProfileBefore, loadingTimeout, isProfileComplete,
                   upgrade, submit>>

\* ----------------------------------------------------------------- Next
Next ==
    \/ MountEffects
    \/ GetSessionAnswer
    \/ GetSessionTimeout
    \/ LateGetSessionAnswer
    \/ \E ok \in BOOLEAN : RefreshSessionAnswer(ok)
    \/ ReadTokenAnswer
    \/ \E ok \in BOOLEAN : SetSessionAnswer(ok)
    \/ \E ok \in BOOLEAN : ReadMarkerAnswer(ok)
    \/ BackgroundFetch
    \/ FailsafeFires
    \/ Unmount
    \/ \E f \in Slots : QueryResponds(f)
    \/ \E f \in Slots : QueryFails(f)
    \/ \E f \in Slots : QueryTimeout(f)
    \/ \E f \in Slots : FallbackResponds(f)
    \/ \E f \in Slots : FallbackFails(f)
    \/ RefreshProfile
    \/ \E u \in Users : ServiceSignIn(u)
    \/ ServiceSignOut
    \/ ServiceTokenRefreshed
    \/ WindowFocus
    \/ NavLoadingTimeoutFires
    \/ CheckStoredProfileCompletion
    \/ StoreProfileCompletion
    \/ Tick

Spec == Init /\ [][Next]_vars


\* ------------------------------------------------- the boot on its own
\* Spec with every backend call of the listener's fetch returning: the query
\* answers, fails or times out, and the fallback query answers or fails.
SpecLive ==
    /\ Spec
    /\ WF_vars(QueryResponds(ListenerSlot) \/ QueryFails(ListenerSlot)
                 \/ QueryTimeout(ListenerSlot))
    /\ WF_vars(FallbackResponds(ListenerSlot) \/ FallbackFails(ListenerSlot))

\* The boot with no outside stimulus, from every combination of what the
\* device and the backend may hold for user A.
BootRows ==
    {NoRow} \cup
    {MkRow(f, l, c) : f \in {NULL, "", "Jane"}, l \in {NULL, "", "Doe"}, c \in FlagValues}

BootScenarios ==
    {sc \in {"web", "native"} \X BOOLEAN \X {NULL, "A"} \X {NULL, "A"} \X BOOLEAN
            \X {NULL, "A"} \X BOOLEAN \X BootRows :
        /\ sc[2] => sc[1] = "web"
        /\ sc[1] = "native" => sc[3] = NULL
        /\ ~sc[2] => sc[4] = NULL
        /\ ~sc[7] => sc[8].completed_profile = NULL}

InitBoot ==
    /\ \E sc \in BootScenarios : EnvIs(sc)
    /\ Constructed

NextBoot ==
    \/ MountEffects
    \/ GetSessionAnswer
    \/ GetSessionTimeout
    \/ LateGetSessionAnswer
    \/ \E ok \in BOOLEAN : RefreshSessionAnswer(ok)
    \/ ReadTokenAnswer
    \/ \E ok \in BOOLEAN : SetSessionAnswer(ok)
    \/ \E ok \in BOOLEAN : ReadMarkerAnswer(ok)
    \/ BackgroundFetch
    \/ FailsafeFires
    \/ \E f \in Slots : QueryResponds(f)
    \/ \E f \in Slots : QueryFails(f)
    \/ \E f \in Slots : QueryTimeout(f)
    \/ \E f \in Slots : FallbackResponds(f)
    \/ \E f \in Slots : FallbackFails(f)
    \/ NavLoadingTimeoutFires
    \/ CheckStoredProfileCompletion
    \/ StoreProfileCompletion
    \/ Tick

SpecBoot == InitBoot /\ [][NextBoot]_vars

\* The same boot with the timer of the fast path's background fetch firing:
\* a timer that is due fires.
SpecBootLive == SpecBoot /\ WF_vars(BackgroundFetch)

\* ------------------------------------------------ signOut of the provider
\* signOut() of the provider variant that exposes it, up to its await of
\* supabase.auth.signOut(): setLoading(true).  The identity service's answer
\* is the SIGNED_OUT event (ServiceSignOut), or an error that is only logged.
\* The home screen, which calls it, is rendered for a signed-in user once
\* loading has ended.
SignOut ==
    /\ isMounted /\ initPc = "done"
    /\ session # NoSession /\ user # NULL /\ ~ExposedLoading
    /\ loading' = TRUE
    /\ UNCHANGED <<envVars, session, user, profile, profileLoading, initError, initVars,
                   listenerVars, fetchVars, hasCompletedProfileBefore, loadingTimeout>>
    /\ NavTimerEffect
    /\ NavRender

\* The boot followed by sign-outs: by the provider's signOut() and by the
\* identity service.
NextSignOut ==
    \/ NextBoot
    \/ SignOut
    \/ ServiceSignOut

SpecSignOut == Init /\ [][NextSignOut]_vars

\* ----------------------------- Navigation's updateExistingProfile effect
\* if (session?.user && profile && hasFirstLastName && !hasCompletedProfile)
UpgradeGuard(s, p) ==
    /\ s # NoSession /\ UserOf(s) # NULL
    /\ p # NoProfile
    /\ HasFirstLastName(p)
    /\ ~HasCompletedProfile(p)

\* The effect runs after a render in which one of its dependencies changed.
\* With the guard true it issues update({completed_profile: true}).eq('id',
\* session.user.id) and awaits the answer; the refreshProfile it will call is
\* the one of this render (user).
UpdateExistingProfile ==
    /\ isMounted
    /\ upgrade.deps
    /\ upgrade' =
          IF UpgradeGuard(session, profile)
          THEN [upgrade EXCEPT !.deps = FALSE,
                               !.pending = Append(@, [id |-> UserOf(session), user |-> user]),
                               !.n = @ + 1]
          ELSE [upgrade EXCEPT !.deps = FALSE]
    /\ UNCHANGED <<envVars, stateVars, initVars, listenerVars, fetchVars,
                   hasCompletedProfileBefore, loadingTimeout, navTimer, isProfileComplete,
                   submit>>

\* the row of u after an update that the store applied
UpdatedRows(u) ==
    IF rows[u].exists
    THEN [rows EXCEPT ![u].completed_profile = "true"]
    ELSE rows

\* The store answers the oldest update.  "error": the error is logged and
\* nothing else happens.  Without an error setHasCompletedProfileBefore(true)
\* and setTimeout(refreshProfile, 500): "applied" when the row now has the flag
\* (it needs the column), "ignored" when the store reports no error although
\* the row is as before (an update that matches no row it may write).
UpdateAnswer(outcome) ==
    /\ isMounted
    /\ upgrade.pending # <<>>
    /\ outcome = "applied" => columnExists
    /\ UNCHANGED <<platform, page_refreshing, last_user_id, profile_completed, storedToken,
                   authSession, columnExists, stateVars, initVars, listenerVars, fetchVars,
                   loadingTimeout, navTimer, submit>>
    /\ LET u == Head(upgrade.pending) IN
       IF outcome = "error"
       THEN /\ upgrade' = [upgrade EXCEPT !.pending = Tail(@)]
            /\ UNCHANGED <<rows, hasCompletedProfileBefore, isProfileComplete>>
       ELSE /\ rows' = IF outcome = "applied" THEN UpdatedRows(u.id) ELSE rows
            /\ hasCompletedProfileBefore' = TRUE
            /\ upgrade' = [upgrade EXCEPT !.pending = Tail(@),
                                          !.timers = Append(@, u.user),
                                          !.phase = "ok"]
            /\ RenderCompletion

\* 500 ms later the timer fires: refreshProfile?.() of the render the effect
\* ran in (with no user it only logs)
UpgradeRefresh ==
    /\ isMounted
    /\ upgrade.timers # <<>>
    /\ LET u == Head(upgrade.timers) IN
       IF u # NULL
       THEN /\ OpsLeft
            /\ nRefresh' = nRefresh + 1
            /\ fetches' = StartedFetches(FreeRefreshSlot, u)
            /\ overlap' = OverlapAtStart
            /\ profileLoading' = TRUE
       ELSE UNCHANGED <<nRefresh, fetches, overlap, profileLoading>>
    /\ UNCHANGED <<envVars, session, user, profile, loading, initError, initVars, listenerVars,
                   lastDone, lastResult, hasCompletedProfileBefore, loadingTimeout, submit>>
    /\ NavTimerEffect
    /\ RenderCompletion
    /\ upgrade' = [upgrade EXCEPT !.timers = Tail(@),
                                  !.phase = IF @ = "ok" THEN "refreshing" ELSE @]

\* The boot with Navigation's effect running after each render that changed
\* its dependencies.
NextUpgrade ==
    \/ NextBoot
    \/ UpdateExistingProfile
    \/ \E outcome \in {"error", "applied", "ignored"} : UpdateAnswer(outcome)
    \/ UpgradeRefresh

SpecUpgrade == Init /\ [][NextUpgrade]_vars

\* ------------------------------ CompleteProfileScreen.handleCompleteProfile
\* what can be typed into the two name fields
TypedFirstNames == {"", "Jane"}
TypedLastNames == {"", "Doe"}

\* fault variant: the return after the third failed write is missing
SubmitProceedsAfterFailure(pc) ==
    CASE pc = "insert" -> "upsert"
      [] pc = "upsert" -> "update"
      [] OTHER -> "marker"

\* where handleCompleteProfile goes when a write reports an error: insert,
\* then upsert, then update, then the alert and return
SubmitAfterFailure(pc) ==
    CASE pc = "insert" -> "upsert"
      [] pc = "upsert" -> "update"
      [] OTHER -> "idle"

\* The save button is pressed (it is disabled while the screen's loading flag
\* is set; the screen is rendered in the CompleteProfile stack once the
\* provider's loading has ended).  Without a session user or with an empty
\* name the handler alerts and returns; else setLoading(true) and the insert
\* is issued.  session and refreshProfile are those of this render.
HandleCompleteProfile(fn, ln) ==
    /\ isMounted
    /\ ~ExposedLoading /\ StackToShow = "CompleteProfile"
    /\ submit.pc = "idle"
    /\ submit.n < MaxOps
    /\ submit' =
          IF UserOf(session) = NULL \/ ~Truthy(fn) \/ ~Truthy(ln)
          THEN [pc |-> "idle", loading |-> FALSE, firstName |-> fn, lastName |-> ln,
                ok |-> FALSE, n |-> submit.n + 1]
          ELSE [pc |-> "insert", loading |-> TRUE, firstName |-> fn, lastName |-> ln,
                ok |-> FALSE, n |-> submit.n + 1]
    /\ UNCHANGED <<envVars, stateVars, initVars, listenerVars, fetchVars,
                   hasCompletedProfileBefore, loadingTimeout, navTimer, isProfileComplete,
                   upgrade>>

\* the row of the session's user after a write that succeeded: insert and
\* upsert store the row, update changes the row that exists
WrittenRows(pc) ==
    IF pc = "update" /\ ~rows[UserOf(session)].exists
    THEN rows
    ELSE [rows EXCEPT ![UserOf(session)] = MkRow(submit.firstName, submit.lastName, "true")]

\* The store answers the write in flight.  A success needs the
\* completed_profile column, and for an insert that no row has the id; it
\* leads on to the marker.  An error leads to the next attempt, after the
\* third to the alert and return, through finally { setLoading(false) }.
WriteAnswer(ok) ==
    /\ isMounted
    /\ submit.pc \in {"insert", "upsert", "update"}
    /\ ok => columnExists
    /\ (ok /\ submit.pc = "insert") => ~rows[UserOf(session)].exists
    /\ IF ok
       THEN /\ rows' = WrittenRows(submit.pc)
            /\ submit' = [submit EXCEPT !.pc = "marker", !.ok = TRUE]
       ELSE /\ rows' = rows
            /\ submit' = [submit EXCEPT !.pc = SubmitAfterFailure(submit.pc),
                                        !.loading = SubmitAfterFailure(submit.pc) # "idle"]
    /\ UNCHANGED <<platform, page_refreshing, last_user_id, profile_completed, storedToken,
                   authSession, columnExists, stateVars, initVars, listenerVars, fetchVars,
                   hasCompletedProfileBefore, loadingTimeout, navTimer, isProfileComplete,
                   upgrade>>

\* After a successful write: AsyncStorage.setItem('profile_completed_<id>',
\* 'true') (a failure is caught and logged), the success alert, then
\* refreshProfile() up to the first await of its fetch (with no user it only
\* logs and the handler ends).
SubmitMarker(stored) ==
    /\ isMounted
    /\ submit.pc = "marker"
    /\ profile_completed' =
          IF stored THEN [profile_completed EXCEPT ![UserOf(session)] = TRUE]
          ELSE profile_completed
    /\ IF user # NULL
       THEN /\ OpsLeft
            /\ nRefresh' = nRefresh + 1
            /\ fetches' = StartedFetches(FreeRefreshSlot, user)
            /\ overlap' = OverlapAtStart
            /\ profileLoading' = TRUE
            /\ submit' = [submit EXCEPT !.pc = "refresh"]
       ELSE /\ UNCHANGED <<nRefresh, fetches, overlap, profileLoading>>
            /\ submit' = [submit EXCEPT !.pc = "idle", !.loading = FALSE]
    /\ UNCHANGED <<platform, page_refreshing, last_user_id, storedToken, authSession,
                   columnExists, rows, session, user, profile, loading, initError, initVars,
                   listenerVars, lastDone, lastResult, hasCompletedProfileBefore,
                   loadingTimeout>>
    /\ NavTimerEffect
    /\ RenderCompletion
    /\ RenderUpgradeDeps

\* refreshProfile() has returned (its fetches have ended): finally
\* { setLoading(false) }
SubmitEnds ==
    /\ submit.pc = "refresh"
    /\ \A f \in RefreshSlots : ~Active(f)
    /\ submit' = [submit EXCEPT !.pc = "idle", !.loading = FALSE]
    /\ UNCHANGED <<envVars, stateVars, initVars, listenerVars, fetchVars,
                   hasCompletedProfileBefore, loadingTimeout, navTimer, isProfileComplete,
                   upgrade>>

\* The boot followed by submissions of the completion form.
NextSubmit ==
    \/ NextBoot
    \/ \E fn \in TypedFirstNames, ln \in TypedLastNames : HandleCompleteProfile(fn, ln)
    \/ \E ok \in BOOLEAN : WriteAnswer(ok)
    \/ \E stored \in BOOLEAN : SubmitMarker(stored)
    \/ SubmitEnds

SpecSubmit == Init /\ [][NextSubmit]_vars

\* ------------------------------------------ Navigation on its own
\* The completion predicate as a function of what Navigation holds: the
\* provider is ready with a session of A and no profile; Navigation then
\* re-renders with any profile from the context and any value of its own
\* hasCompletedProfileBefore and loadingTimeout state.
ProfileValues ==
    {NoProfile} \cup
    {MkProfile("A", f, l, c) : f \in NameValues, l \in NameValues, c \in FlagValues}

InitNav ==
    /\ platform = "native"
    /\ page_refreshing = FALSE
    /\ last_user_id = NULL
    /\ storedToken = NULL
    /\ profile_completed = [u \in Users |-> FALSE]
    /\ authSession = "A"
    /\ columnExists = TRUE
    /\ rows = [u \in Users |-> NoRow]
    /\ session = SessionOf("A")
    /\ user = "A"
    /\ profile = NoProfile
    /\ loading = FALSE
    /\ profileLoading = FALSE
    /\ initError = FALSE
    /\ isMounted = TRUE
    /\ failsafeTimeout = Off
    /\ initPc = "done"
    /\ initialSession = SessionOf("A")
    /\ isRefreshing = FALSE
    /\ sessionTimer = Off
    /\ getSessionCall = "done"
    /\ bgTimer = Off
    /\ previousUserId = NULL
    /\ refreshInProgress = FALSE
    /\ sinceFocus = 0
    /\ nEvents = 0
    /\ nFocus = 0
    /\ fetches = [f \in Slots |-> IdleFetch]
    /\ nRefresh = 0
    /\ lastDone = NoSlot
    /\ lastResult = NoProfile
    /\ overlap = "none"
    /\ hasCompletedProfileBefore = FALSE
    /\ loadingTimeout = FALSE
    /\ navTimer = Off
    /\ isProfileComplete = FALSE
    /\ upgrade = [deps |-> TRUE, pending |-> <<>>, timers |-> <<>>, n |-> 0, phase |-> "none"]
    /\ submit = [pc |-> "idle", loading |-> FALSE, firstName |-> "", lastName |-> "",
                 ok |-> FALSE, n |-> 0]

\* Navigation renders with profile p from useAuth() and its state at b, t
NavReceives(p, b, t) ==
    /\ profile' = p
    /\ hasCompletedProfileBefore' = b
    /\ loadingTimeout' = t
    /\ UNCHANGED <<envVars, session, user, loading, profileLoading, initError, initVars,
                   listenerVars, fetchVars, navTimer>>
    /\ NavRender

NextNav ==
    \E p \in ProfileValues, b \in BOOLEAN, t \in BOOLEAN : NavReceives(p, b, t)

SpecNav == InitNav /\ [][NextNav]_vars

\* ------------------------------------------------------------ properties
\* a text column holds a name
Present(v) == v # NULL /\ v # ""

FetchCompletes == \E f \in Slots : Active(f) /\ ~Active(f)'
AuthEventArrives == nEvents' = nEvents + 1

\* C1: when the failsafe fires in a mounted provider, the exposed loading flag
\* is false afterwards and the initialization error is recorded, whatever is
\* still in flight.
C1_FailsafeEndsLoading ==
    [][(isMounted /\ failsafeTimeout = 0 /\ ~initError /\ initError')
          => ~CombinedLoading(loading', session', profileLoading')]_vars

\* C2: once getSession has answered in time with a session, a mounted provider
\* has loading = false as soon as initializeAuth has ended or the failsafe is no
\* longer armed, and (no auth event having interfered) session and user are
\* that session and its user, whatever the profile fetch produced.
C2_SessionReady ==
    (isMounted /\ getSessionCall = "done" /\ initPc \notin {"idle", "getSession"}
       /\ initialSession # NoSession)
    => /\ (initPc = "done" \/ failsafeTimeout = Off) => ~loading
       /\ (initPc = "done" /\ ~AnyActive) => ~ExposedLoading
       /\ nEvents = 0 => (session = initialSession /\ user = UserOf(initialSession))

C2_Witness ==
    /\ isMounted /\ getSessionCall = "done" /\ initPc = "done" /\ nEvents = 0
    /\ initialSession = SessionOf("A") /\ session = SessionOf("A") /\ user = "A"
    /\ lastDone = InitSlot /\ profile = NoProfile /\ rows["A"].exists
    /\ ~ExposedLoading /\ ~initError

\* C3: when the 2000 ms timer wins the getSession race, initializeAuth ends
\* with no session: loading = false in a mounted provider, session, user and
\* profile null (no auth event having interfered); the late answer of
\* getSession changes nothing of the provider.
C3_TimeoutMeansLoggedOut ==
    [][/\ (getSessionCall' \in {"lost", "discarded"})
            => /\ initPc' = "done" /\ initialSession' = NoSession
               /\ isMounted' => ~loading'
               /\ nEvents' = 0 => (session' = NoSession /\ user' = NULL
                                    /\ profile' = NoProfile /\ ~AnyActive')
               /\ (isMounted' /\ nEvents' = 0) => ~ExposedLoading'
       /\ (getSessionCall = "lost" /\ getSessionCall' = "discarded")
            => UNCHANGED <<stateVars, initPc, initialSession, fetches, failsafeTimeout>>]_vars

C3_Witness ==
    /\ getSessionCall = "discarded" /\ authSession = "A" /\ isMounted
    /\ initPc = "done" /\ session = NoSession /\ user = NULL /\ ~loading
    /\ nEvents = 0

\* C4: after a sign-out has been handled and session, user and profile are
\* cleared, a profile fetch that completes while user is still null leaves
\* profile null.
C4_LateResultDiscarded ==
    [][(nEvents > 0 /\ previousUserId = NULL /\ session = NoSession /\ user = NULL
          /\ profile = NoProfile /\ FetchCompletes /\ user' = NULL)
          => profile' = NoProfile]_vars

\* C5 (as stated): at most one profile fetch is in flight at any time.
C5_SingleFetchInFlight == Cardinality({f \in Slots : Active(f)}) <= 1

\* C5 (amended): refreshInProgress is set exactly while a fetch started by the
\* auth-listener effect (auth-event handler or focus handler) is in flight, and
\* an auth event that arrives meanwhile is dropped: it changes no provider
\* state and starts no fetch.
C5_ListenerGuard ==
    [][/\ refreshInProgress' <=> (Active(ListenerSlot)' \/ Active(FocusSlot)')
       /\ (refreshInProgress /\ AuthEventArrives)
            => UNCHANGED <<stateVars, fetches, previousUserId, refreshInProgress>>]_vars

C5_Witness ==
    /\ refreshInProgress /\ Active(ListenerSlot) /\ nEvents = 2
    /\ authSession = NULL /\ user = "A" /\ previousUserId = "A"

\* C6: once isMounted is false, no step changes session, user, profile,
\* loading or profileLoading.
C6_NoWriteAfterTeardown ==
    [][~isMounted => UNCHANGED <<session, user, profile, loading, profileLoading>>]_vars

\* the outcomes of one refreshProfile() call for user u
SingleRefreshOutcomes(u) ==
    {NoProfile, IF columnExists THEN QueryResult(u) ELSE FallbackResult(u)}

\* C7: after two refreshProfile() calls for the same user have both completed
\* (the last completion being one of them, no auth event in the run), profile
\* is an outcome of a single call, profileLoading is false and the exposed
\* loading flag is what it is without any refresh.
C7_DoubleRefresh ==
    (nRefresh = 2 /\ nEvents = 0 /\ lastDone \in RefreshSlots /\ ~AnyActive)
    => /\ profile \in SingleRefreshOutcomes(user)
       /\ profile = lastResult
       /\ ~profileLoading
       /\ ExposedLoading = loading

C7_Witness ==
    /\ nRefresh = 2 /\ nEvents = 0 /\ lastDone = RefreshSlot(2) /\ ~AnyActive
    /\ overlap = "both" /\ user = "A" /\ profile = QueryResult("A")
    /\ profile # NoProfile /\ ~profileLoading

\* C8: when profile fetches have overlapped and all have completed, profile is
\* the result of the one that completed last.
C8_LastCompletedWins ==
    (lastDone # NoSlot /\ overlap = "both" /\ ~AnyActive) => profile = lastResult

C8_Witness ==
    /\ lastDone \in RefreshSlots /\ overlap = "both" /\ ~AnyActive
    /\ nRefresh = 1 /\ nEvents = 0 /\ platform = "web" /\ initPc = "done"
    /\ profile = NoProfile /\ profile_completed["A"] /\ isMounted

C10_CompletionRule ==
    isMounted =>
        (isProfileComplete <=>
            \/ profile.completed_profile = "true"
            \/ Present(profile.first_name) /\ Present(profile.last_name)
            \/ hasCompletedProfileBefore
            \/ loadingTimeout)

C10_Witness ==
    /\ isProfileComplete /\ profile = MkProfile("A", "Jane", "Doe", NULL)
    /\ ~hasCompletedProfileBefore /\ ~loadingTimeout

BootUserUnknown ==
    /\ initialSession # NoSession /\ columnExists
    /\ ~rows[UserOf(initialSession)].exists
    /\ ~profile_completed[UserOf(initialSession)]

\* C12 (as stated): a boot of a user with no row and no marker ends ready with
\* profile null, no initialization error and isProfileComplete false.
C12_NoRowNoError ==
    (initPc = "done" /\ isMounted /\ BootUserUnknown)
    => (profile = NoProfile /\ ~loading /\ ~initError /\ ~isProfileComplete)

\* C12 (amended): the step that ends the boot's profile read for such a user
\* leaves profile null, loading and the exposed flag false, session and user
\* kept; isProfileComplete is false unless Navigation's loading timeout has
\* fired; the step records no error itself, so none is recorded when the
\* failsafe has not fired before.
C12_NoRowReady ==
    [][(initPc = "fetch" /\ initPc' = "done" /\ isMounted /\ BootUserUnknown)
          => /\ profile' = NoProfile
             /\ ~loading' /\ ~CombinedLoading(loading', session', profileLoading')
             /\ session' = initialSession /\ user' = UserOf(initialSession)
             /\ isProfileComplete' <=> loadingTimeout'
             /\ initError' = initError
             /\ failsafeTimeout # Off => ~initError']_vars

C12_Witness ==
    /\ initPc = "done" /\ isMounted /\ BootUserUnknown /\ lastDone = InitSlot
    /\ session = SessionOf("A") /\ user = "A" /\ profile = NoProfile
    /\ ~loading /\ ~initError /\ ~isProfileComplete

\* C13: whatever the outcome of the read (row, not-found, timeout, missing
\* column then fallback, any error, fallback error), the step that ends a
\* fetchProfile or refreshProfile call resets profileLoading, leaves initError
\* as it was, and lets the caller go on: the boot ends ready, the listener
\* releases its flag, the refresh slot is free again.
C13_FetchNeverFails ==
    [][\A f \in Slots :
          (Active(f) /\ ~Active(f)')
          => /\ ~profileLoading'
             /\ initError' = initError
             /\ lastDone' = f
             /\ lastResult' \in {NoProfile, QueryResult(fetches[f].uid), FallbackResult(fetches[f].uid)}
             /\ profile' = lastResult'
             /\ (f = InitSlot /\ initPc = "fetch") => (initPc' = "done" /\ (isMounted => ~loading'))
             /\ (f = ListenerSlot) => ~refreshInProgress'
             /\ <<session', user'>> = <<session, user>>]_vars

C13_Witness ==
    /\ ~columnExists /\ rows["A"].exists
    /\ lastDone \in RefreshSlots /\ lastResult = NoProfile /\ profile = NoProfile
    /\ ~profileLoading /\ ~initError /\ ~AnyActive
    /\ session = SessionOf("A") /\ initPc = "done"

\* the boot's first query for a stored row ends without a result: it timed out
\* or failed with an error that is neither not-found nor a missing column
BootReadFails ==
    /\ fetches[InitSlot].st = "query" /\ ~Active(InitSlot)'
    /\ columnExists /\ rows[fetches[InitSlot].uid].exists
    /\ lastResult' = NoProfile
    /\ isMounted

\* C14: when the boot's profile read times out or fails, profile is null, the
\* provider is ready with session and user kept and no error recorded by the
\* read, and without the marker term and the timeout override Navigation
\* renders the profile-completion screen.
C14_FailedReadKeepsSession ==
    [][BootReadFails
          => /\ profile' = NoProfile
             /\ session # NoSession /\ session' = session
             /\ user # NULL /\ user' = user
             /\ ~loading' /\ ~CombinedLoading(loading', session', profileLoading')
             /\ initError' = initError
             /\ (~hasCompletedProfileBefore' /\ ~loadingTimeout')
                  => (StackToShow' = "CompleteProfile" /\ ~isProfileComplete')]_vars

C14_Witness ==
    /\ initPc = "done" /\ isMounted /\ lastDone = InitSlot /\ lastResult = NoProfile
    /\ columnExists /\ rows["A"] = MkRow("Jane", "Doe", "true")
    /\ session = SessionOf("A") /\ user = "A" /\ profile = NoProfile
    /\ ~loading /\ ~hasCompletedProfileBefore /\ ~loadingTimeout
    /\ StackToShow = "CompleteProfile"

\* an auth event other than SIGNED_OUT for the user the handler handled last
\* reaches a handler that is not busy
SameUserEvent ==
    /\ AuthEventArrives /\ isMounted /\ ~refreshInProgress
    /\ authSession' # NULL /\ authSession' = previousUserId

\* C15: a same-user event that is not SIGNED_OUT, arriving within 2000 ms of a
\* focus change or while the held profile is complete, is a no-op: session,
\* user and profile are not written, no fetch is started, the flag is released.
C15_SameUserSkipped ==
    [][(SameUserEvent /\ (sinceFocus < DebounceTicks \/ KnownComplete(profile)))
          => /\ UNCHANGED <<session, user, profile, profileLoading, fetches, previousUserId>>
             /\ ~refreshInProgress']_vars

\* the positions of initializeAuth inside the recovery block
RecoveryPcs == {"refreshSession", "readToken", "setSession"}

\* session acquisition ends without a session after a page reload on web
AcquisitionEndsEmpty ==
    /\ initPc = "getSession" /\ initPc' # "getSession"
    /\ isRefreshing /\ platform = "web"
    /\ getSessionCall' = "lost" \/ (getSessionCall' = "done" /\ authSession = NULL)

\* C16 (as stated): after a reload on web, a getSession that times out or
\* answers with no session is followed by the recovery attempt.
C16_RecoveryOnTimeoutOrAbsence ==
    [][AcquisitionEndsEmpty => initPc' = "refreshSession"]_vars

\* C16 (amended): recovery is attempted exactly when getSession answers with
\* no session, the page was reloading on web and a last_user_id is stored; a
\* timeout goes on without a session.  The forced refresh comes first, the
\* stored token is read only after the refresh failed, and setSession is tried
\* only with a token.  A step that leaves recovery records no error and
\* continues with the recovered session or with none; with none, a mounted
\* provider is ready and logged out.
C16_Recovery ==
    [][/\ (initPc = "getSession" /\ initPc' # "getSession")
            => /\ initPc' = "refreshSession"
                    <=> (getSessionCall' = "done" /\ authSession = NULL /\ isRefreshing
                           /\ platform = "web" /\ last_user_id # NULL)
               /\ getSessionCall' = "lost" => initialSession' = NoSession
       /\ (initPc # "readToken" /\ initPc' = "readToken") => initPc = "refreshSession"
       /\ (initPc # "setSession" /\ initPc' = "setSession")
            => (initPc = "readToken" /\ storedToken # NULL)
       /\ (initPc \in RecoveryPcs /\ initPc' \notin RecoveryPcs)
            => /\ initError' = initError
               /\ initialSession' \in {NoSession, SessionOf(storedToken)}
               /\ authSession' = UserOf(initialSession')
               /\ isMounted => (session' = initialSession' /\ user' = UserOf(initialSession'))
               /\ (isMounted /\ initialSession' = NoSession)
                    => (initPc' = "done" /\ ~loading' /\ profile' = NoProfile)
               /\ (isMounted /\ initialSession' # NoSession)
                    => initPc' \in {"readMarker", "fetch"}]_vars

C16_Witness ==
    /\ initPc = "setSession" /\ isRefreshing /\ platform = "web"
    /\ last_user_id = "A" /\ storedToken = "A" /\ authSession = NULL
    /\ getSessionCall = "done" /\ session = NoSession /\ ~initError /\ isMounted

\* the boot has delivered its session, or the handler has handled an event
IdentityDelivered ==
    \/ initPc \in {"readMarker", "fetch", "done"} /\ getSessionCall # "pending"
    \/ previousUserId # NULL

ObservedComplete(u) ==
    /\ profile \in {QueryResult(u), FallbackResult(u)}
    /\ KnownComplete(profile)

\* C18: the marker of a user is set only when a complete profile of that user,
\* read from the backend, is held: never for another user's profile, the
\* placeholder alone or the timeout override.
C18_MarkerOnlyWhenObserved ==
    [][\A u \in Users :
          (~profile_completed[u] /\ profile_completed'[u]) => ObservedComplete(u)]_vars

\* C19: once loading has ended, Navigation renders the main screens exactly
\* when session and user are present and isProfileComplete is true, the
\* profile-completion screen exactly when they are present and it is false,
\* and the sign-in screen exactly when session or user is absent.
C19_CompletionGatesNavigation ==
    (isMounted /\ ~ExposedLoading)
    => \A tooLong \in BOOLEAN :
         /\ ScreenShown(tooLong) \in {"Main", "CompleteProfile", "Auth"}
         /\ ScreenShown(tooLong) = "Main"
              <=> (session # NoSession /\ user # NULL /\ isProfileComplete)
         /\ ScreenShown(tooLong) = "CompleteProfile"
              <=> (session # NoSession /\ user # NULL /\ ~isProfileComplete)
         /\ ScreenShown(tooLong) = "Auth"
              <=> (session = NoSession \/ user = NULL)

C19_Witness ==
    /\ isMounted /\ ~ExposedLoading /\ initPc = "done" /\ nEvents = 2
    /\ session = SessionOf("B") /\ user = "B" /\ profile = NoProfile
    /\ hasCompletedProfileBefore /\ isProfileComplete
    /\ ScreenShown(FALSE) = "Main"

\* the profile held is the placeholder the fast path synthesised
PlaceholderHeld ==
    initialSession # NoSession /\ profile = PlaceholderProfile(UserOf(initialSession))

\* C20: after a fast-path boot the background timer is armed and leads to a
\* real fetch for the boot's user; the placeholder is held only while that
\* timer is pending or that fetch is in flight, and the step that completes the
\* fetch replaces it by the fetched row, or by null on failure or timeout.
C20_PlaceholderReplaced ==
    /\ [](PlaceholderHeld => (bgTimer # Off \/ Active(InitSlot)))
    /\ [][(bgTimer # Off /\ bgTimer' = Off)
            => /\ Active(InitSlot)'
               /\ fetches'[InitSlot].uid = UserOf(initialSession)]_vars
    /\ [][(PlaceholderHeld /\ Active(InitSlot) /\ ~Active(InitSlot)')
            => /\ profile' = lastResult'
               /\ profile' \in {NoProfile, QueryResult(fetches[InitSlot].uid),
                                FallbackResult(fetches[InitSlot].uid)}
               /\ ~PlaceholderHeld']_vars
    /\ (PlaceholderHeld /\ bgTimer # Off) ~> Active(InitSlot)

C20_Witness ==
    /\ platform = "web" /\ profile_completed["A"] /\ initPc = "done" /\ isMounted
    /\ session = SessionOf("A") /\ profile = PlaceholderProfile("A")
    /\ ~loading /\ bgTimer = Off /\ fetches[InitSlot].st = "query"
    /\ rows["A"] = MkRow("Jane", "", "false")

\* a window focus event reaches the provider
FocusArrives == nFocus' = nFocus + 1

\* C21: on web, a focus event with a user signed in, no refresh in progress and
\* at least 5000 ms since the last recorded focus starts a fetch for that user
\* unless the marker is set and the held profile is complete; a focus event
\* within 5000 ms starts no fetch.
C21_FocusRefresh ==
    [][(FocusArrives /\ platform = "web" /\ isMounted /\ user # NULL /\ ~refreshInProgress)
          => /\ (sinceFocus >= FocusTicks
                   /\ ~(profile_completed[user] /\ KnownComplete(profile)))
                  => (Active(FocusSlot)' /\ fetches'[FocusSlot].uid = user)
             /\ sinceFocus < FocusTicks => fetches' = fetches]_vars

\* the last event the identity service delivered was SIGNED_OUT, and the boot,
\* every fetch and every handler have run to their end
SignedOutAndQuiet ==
    /\ isMounted /\ nEvents > 0 /\ authSession = NULL
    /\ initPc = "done" /\ bgTimer = Off /\ ~AnyActive /\ ~refreshInProgress

\* C22: once a SIGNED_OUT has been delivered to a mounted provider and all
\* work in flight has ended, session, user and profile are null, also when the
\* event arrived while the refresh-in-progress flag was held.
C22_SignedOutClears ==
    SignedOutAndQuiet => (session = NoSession /\ user = NULL /\ profile = NoProfile)

\* C23: whenever no profile fetch is in flight, the profile held is null or is
\* the profile of the current user.
C23_ProfileOfCurrentUser ==
    (isMounted /\ ~AnyActive /\ bgTimer = Off)
    => (profile = NoProfile \/ (user # NULL /\ profile.id = user))

\* C24: a handler step that ends without awaiting a fetch leaves the flag
\* false unless another handler holds it; the step that ends the awaited
\* fetch releases it, whatever the outcome; and with every backend call
\* returning, a held flag is released eventually.
C24_FlagReleased ==
    /\ [][((AuthEventArrives \/ FocusArrives) /\ ~refreshInProgress
              /\ ~Active(ListenerSlot)' /\ ~Active(FocusSlot)')
            => ~refreshInProgress']_vars
    /\ [][\A f \in {ListenerSlot, FocusSlot} :
            (Active(f) /\ ~Active(f)') => ~refreshInProgress']_vars
    /\ [](refreshInProgress => (Active(ListenerSlot) \/ Active(FocusSlot)))
    /\ refreshInProgress ~> ~refreshInProgress

C24_Witness ==
    /\ ~refreshInProgress /\ lastDone = ListenerSlot /\ lastResult = NoProfile
    /\ nEvents = 1 /\ user = "A" /\ rows["A"].exists /\ ~columnExists /\ ~AnyActive

\* C25: profileLoading is true exactly while at least one profile fetch is in
\* flight.
C25_ProfileLoadingTracksFetches ==
    profileLoading <=> AnyActive

\* B, who has no profile row and no marker, is signed in after an earlier
\* user of the same run, and B's own fetch has ended with no profile
NewUserSettled ==
    /\ isMounted /\ ~AnyActive /\ initPc = "done" /\ bgTimer = Off
    /\ session = SessionOf("B") /\ user = "B" /\ previousUserId = "B"
    /\ ~rows["B"].exists /\ ~profile_completed["B"]
    /\ lastDone = ListenerSlot /\ profile = NoProfile

\* C26: isProfileComplete for the signed-in user depends only on that user's
\* profile and marker: B with no row and no marker is not complete and is
\* shown the profile-completion screen, whoever was signed in before.
C26_CompletionPerUser ==
    NewUserSettled => (~isProfileComplete /\ StackToShow = "CompleteProfile")

\* the boot's fetch has ended with an incomplete profile (or none) for a
\* signed-in user whose marker is not set, stored or in memory
IncompleteLoaded ==
    /\ isMounted /\ ~AnyActive /\ initPc = "done" /\ bgTimer = Off
    /\ session # NoSession /\ user # NULL
    /\ lastDone = InitSlot /\ profile = lastResult /\ ~KnownComplete(profile)
    /\ ~profile_completed[user] /\ ~hasCompletedProfileBefore

\* C27: the timeout override does not outlive the load that was too slow: once
\* the fetch has ended with an incomplete profile for a user with no marker,
\* isProfileComplete is false.
C27_OverrideEndsWithLoad ==
    IncompleteLoaded => ~isProfileComplete

\* C28: after signOut() has set loading and the SIGNED_OUT event has been
\* processed, with nothing left in flight, the exposed loading flag is false.
C28_LoadingEndsAfterSignOut ==
    SignedOutAndQuiet => ~ExposedLoading

UpdateIssued == upgrade'.n > upgrade.n
UpdateFailed ==
    /\ Len(upgrade'.pending) < Len(upgrade.pending)
    /\ Len(upgrade'.timers) = Len(upgrade.timers)

\* C29 as stated: whatever the store does, once a successful update has been
\* followed by a completed refresh the effect issues no further update.
C29_NoUpdateAfterRefresh ==
    [][UpdateIssued => upgrade.phase # "refreshed"]_vars

\* C29: an update is issued only by a run of the effect that a change of its
\* dependencies caused, with a profile that has both names and no completed
\* flag; an update that failed changes nothing, so it is not retried by
\* itself; the updates issued are at most one more than the refreshes; and
\* after a successful update followed by a completed refresh another update
\* is issued only while the row of the session's user still lacks the flag,
\* that is, only when the store reported success without applying the update.
C29_UpgradeTerminates ==
    /\ [][UpdateIssued => (upgrade.deps /\ session # NoSession /\ HasFirstLastName(profile)
                            /\ ~HasCompletedProfile(profile))]_vars
    /\ [][UpdateFailed => (upgrade'.deps = upgrade.deps /\ upgrade'.n = upgrade.n
                            /\ nRefresh' = nRefresh /\ rows' = rows
                            /\ hasCompletedProfileBefore' = hasCompletedProfileBefore)]_vars
    /\ [](upgrade.n <= nRefresh + 1)
    /\ [][(UpdateIssued /\ upgrade.phase = "refreshed")
            => ~Truthy(rows[UserOf(session)].completed_profile)]_vars

\* an update was applied, the refresh read the flag, the effect ran again and
\* issued nothing
C29_Witness ==
    /\ upgrade.phase = "refreshed" /\ upgrade.n = 1 /\ ~upgrade.deps
    /\ upgrade.pending = <<>> /\ upgrade.timers = <<>>
    /\ ~AnyActive
    /\ Truthy(rows["A"].completed_profile)
    /\ HasCompletedProfile(profile)

SubmitStep == submit' # submit
SubmitEndsUnsaved == SubmitStep /\ submit'.pc = "idle" /\ ~submit'.ok

\* C30: a step of the submission sets the completion marker or calls
\* refreshProfile only after one of its writes has succeeded; a submission
\* that is rejected (no session user, an empty name) or whose three writes all
\* failed leaves the marker, the stored rows and the provider's state and
\* fetches as they were; and whenever no submission is running the screen's
\* loading flag is false.
C30_SubmitOnlyAfterWrite ==
    /\ [][(SubmitStep /\ (profile_completed' # profile_completed \/ nRefresh' > nRefresh))
            => submit.ok]_vars
    /\ [][SubmitEndsUnsaved
            => (/\ profile_completed' = profile_completed
                /\ rows' = rows
                /\ <<session, user, profile, loading, profileLoading, initError>>'
                     = <<session, user, profile, loading, profileLoading, initError>>
                /\ fetches' = fetches /\ nRefresh' = nRefresh
                /\ ~submit'.loading)]_vars
    /\ [](submit.pc = "idle" => ~submit.loading)

\* a submission with both names has ended after its three writes failed
C30_Witness ==
    /\ submit.n = 1 /\ submit.pc = "idle" /\ ~submit.ok
    /\ submit.firstName = "Jane" /\ submit.lastName = "Doe"
    /\ session = SessionOf("A")
    /\ ~profile_completed["A"]
    /\ nRefresh = 0
    /\ ~submit.loading

=============================================================================
